---- MODULE Spec2Model ----
(***************************************************************************)
(* Plant Identification & Care Guide: the App component of src/App.tsx.    *)
(*                                                                         *)
(* The component is an event-driven state machine: React state             *)
(* (selectedImage, loading, isStreaming, plantInfo, error), the video      *)
(* element behind videoRef, the camera streams handed out by               *)
(* getUserMedia, and the callbacks that are still outstanding (FileReader  *)
(* loads, getUserMedia promises, fetch().then chains, the 1.5 s timers of  *)
(* identifyPlant).  Every action below is one handler or one promise       *)
(* continuation, followed by the re-render that React commits after it.    *)
(***************************************************************************)
EXTENDS Integers, Sequences, FiniteSets, TLC

(***************************************************************************)
(* Bounds of the model.                                                    *)
(***************************************************************************)
\* uploads and captures issued in one session
MaxRequests == 2
\* calls of startCamera in one session
MaxCameraCalls == 2
\* words in a file name handed to the file-name matcher
MaxNameLen == 2

(***************************************************************************)
(* The nullable pieces of state (string | null, PlantInfo | null): null is *)
(* the empty sequence and a value v is held as Some(v).                    *)
(***************************************************************************)
null == <<>>

Some(v) == <<v>>

(***************************************************************************)
(* The plant database (App.tsx lines 16-103), field for field.             *)
(***************************************************************************)
plantDatabase ==
  "mustard" :>
      [
        name |-> "Mustard Plant (Brassica juncea)",
        watering |-> "Keep soil consistently moist but not waterlogged. Water when top inch of soil feels dry.",
        light |-> "Full sun to partial shade. Requires 6-8 hours of direct sunlight daily for optimal growth.",
        diseases |-> << "Downy mildew",
                       "White rust",
                       "Alternaria leaf spot",
                       "Bacterial leaf spot" >>,
        benefits |-> << "Rich in vitamins A, C, and K",
                       "High in antioxidants",
                       "Anti-inflammatory properties",
                       "Supports digestive health",
                       "Good source of fiber" >>,
        isPoisonous |-> FALSE,
        treatment |-> "For fungal diseases, remove infected leaves and improve air circulation. Apply copper-based fungicide for severe cases. Ensure proper spacing between plants to prevent disease spread."
      ]
  @@
  "peaceLily" :>
      [
        name |-> "Peace Lily (Spathiphyllum)",
        watering |-> "Keep soil moist but not waterlogged. Water when top inch of soil is dry.",
        light |-> "Thrives in medium to low indirect light. Avoid direct sunlight.",
        diseases |-> << "Leaf spot",
                       "Root rot",
                       "Powdery mildew" >>,
        benefits |-> << "Air purifying qualities",
                       "Removes toxins like benzene and formaldehyde",
                       "Increases humidity",
                       "Reduces stress" >>,
        isPoisonous |-> TRUE,
        treatment |-> "For leaf spot, remove affected leaves and improve air circulation. For root rot, reduce watering and repot if necessary."
      ]
  @@
  "rose" :>
      [
        name |-> "Rose (Rosa)",
        watering |-> "Water deeply once a week, more often in hot weather.",
        light |-> "Full sun, at least 6 hours of direct sunlight daily.",
        diseases |-> << "Black spot",
                       "Powdery mildew",
                       "Rust" >>,
        benefits |-> << "Beautiful flowers",
                       "Symbol of love and beauty",
                       "Can be used in herbal remedies" >>,
        isPoisonous |-> FALSE,
        treatment |-> "Prune affected areas and apply fungicides as needed."
      ]
  @@
  "tulip" :>
      [
        name |-> "Tulip (Tulipa)",
        watering |-> "Water when the top inch of soil is dry, especially during blooming.",
        light |-> "Full sun to partial shade.",
        diseases |-> << "Botrytis blight",
                       "Tulip fire" >>,
        benefits |-> << "Bright and colorful flowers",
                       "Easy to grow",
                       "Attracts pollinators" >>,
        isPoisonous |-> TRUE,
        treatment |-> "Remove affected plants and avoid overwatering."
      ]
  @@
  "fern" :>
      [
        name |-> "Fern (Pteridophyta)",
        watering |-> "Keep soil consistently moist but not soggy.",
        light |-> "Prefers indirect light; avoid direct sunlight.",
        diseases |-> << "Leaf spot",
                       "Root rot" >>,
        benefits |-> << "Air purifying qualities",
                       "Adds greenery to indoor spaces",
                       "Low maintenance" >>,
        isPoisonous |-> FALSE,
        treatment |-> "Remove dead fronds and ensure proper drainage."
      ]
  @@
  "cactus" :>
      [
        name |-> "Cactus (Cactaceae)",
        watering |-> "Water sparingly; allow soil to dry out completely between waterings.",
        light |-> "Full sun; requires bright light.",
        diseases |-> << "Cactus rot",
                       "Mealybugs" >>,
        benefits |-> << "Low water requirements",
                       "Unique appearance",
                       "Can thrive in dry conditions" >>,
        isPoisonous |-> FALSE,
        treatment |-> "Remove affected areas and ensure proper drainage."
      ]

(***************************************************************************)
(* File names.  A name is a sequence of words; a word is a base word in a  *)
(* letter case.  String.includes is case sensitive, so a keyword is found  *)
(* in a name only where the word stands in lower case.                     *)
(***************************************************************************)
Keywords == {"mustard", "peace", "lily", "rose", "tulip", "fern", "cactus"}

OtherWords == {"plant", "capture"}

Cases == {"lower", "upper"}

Words == (Keywords \cup OtherWords) \X Cases

NamesOfLen(n) == [1..n -> Words]

FileNames == UNION {NamesOfLen(n) : n \in 0..MaxNameLen}

\* a matcher that forgets to lower-case the name
toLowerCase_Identity(name) == name

\* String.prototype.toLowerCase
toLowerCase(name) == [i \in DOMAIN name |-> <<name[i][1], "lower">>]

\* String.prototype.includes, for a keyword
includes(name, kw) == \E i \in DOMAIN name : name[i] = <<kw, "lower">>

\* identifyPlant, lines 167-183: the plant type computed from the file name
PlantTypeOf(name) ==
  LET fileName == toLowerCase(name) IN
    IF includes(fileName, "mustard") THEN "mustard"
    ELSE IF includes(fileName, "peace") \/ includes(fileName, "lily") THEN "peaceLily"
    ELSE IF includes(fileName, "rose") THEN "rose"
    ELSE IF includes(fileName, "tulip") THEN "tulip"
    ELSE IF includes(fileName, "fern") THEN "fern"
    ELSE IF includes(fileName, "cactus") THEN "cactus"
    ELSE "unknown"

UnableMsg == "Unable to identify plant. Please ensure the image is clear and try again."

(***************************************************************************)
(* Files the user can pick in the session model: "my_rose.jpg",            *)
(* "unknown_plant.png" and "TULIP.JPG", each with its own content.         *)
(***************************************************************************)
UploadFiles ==
  { [name |-> << <<"plant", "lower">>, <<"rose", "lower">> >>, content |-> "roseBytes"],
    [name |-> << <<"plant", "lower">> >>,                      content |-> "otherBytes"],
    [name |-> << <<"tulip", "upper">> >>,                      content |-> "tulipBytes"] }

\* the same, with a file for every other plant of the database
CatalogFiles ==
  UploadFiles \cup
  { [name |-> << <<"peace", "upper">>, <<"lily", "upper">> >>, content |-> "lilyBytes"],
    [name |-> << <<"mustard", "lower">> >>,                    content |-> "mustardBytes"],
    [name |-> << <<"fern", "lower">>, <<"plant", "lower">> >>, content |-> "fernBytes"],
    [name |-> << <<"cactus", "upper">> >>,                     content |-> "cactusBytes"] }

\* the File built by captureImage, line 153: new File([blob], "capture.jpg")
CaptureFileName == << <<"capture", "lower">> >>

\* FileReader.readAsDataURL / canvas.toDataURL: the bytes as a data: URI
DataURI(content) == <<"data:", content>>

\* the frame drawn from the video element, encoded by canvas.toDataURL
FrameURI == DataURI("frame")

VARIABLES
  selectedImage,   \* useState: data URI of the preview, or null
  loading,         \* useState: the loading flag
  isStreaming,     \* useState: the streaming flag
  plantInfo,       \* useState: the displayed profile, or null
  error,           \* useState: the displayed error message, or null
  videoRef,        \* videoRef: [current: is a <video> mounted, srcObject: stream or 0]
  tracks,          \* tracks[s]: "live" or "ended", for every stream s granted so far
  cameraCalls,     \* number of startCamera calls made
  userMedia,       \* getUserMedia promises not yet settled
  alerts,          \* number of alert() notices shown
  readers,         \* FileReaders whose onloadend has not run: [id, file]
  fetches,         \* fetch(imageDataUrl) chains of captures not yet run: [id]
  timers,          \* identifyPlant calls waiting on their 1.5 s timer, oldest first
  nextId,          \* number of the next upload or capture
  done,            \* history: the identifications that resolved, oldest first
  loaded,          \* history: the uploads whose file read has ended
  lastOp,          \* history: the handler or continuation that ran last
  probeName,       \* file-name matcher on its own: the name given
  probeType        \* file-name matcher on its own: the type returned, or "none"

state == <<selectedImage, loading, isStreaming, plantInfo, error>>

camera == <<videoRef, tracks, cameraCalls, userMedia, alerts>>

inflight == <<readers, fetches, timers, nextId>>

history == <<done, loaded>>

probe == <<probeName, probeType>>

vars == <<state, camera, inflight, history, lastOp, probe>>

(***************************************************************************)
(* Render, lines 247-262: the <video ref={videoRef}> element exists only   *)
(* while isStreaming is true.  React commits the render after each handler *)
(* or continuation, so the ref seen by the next one is the committed one.  *)
(***************************************************************************)
NoVideo == [current |-> FALSE, srcObject |-> 0]

Commit(streaming, ref) ==
  IF streaming
    THEN IF ref.current THEN ref ELSE [current |-> TRUE, srcObject |-> 0]
    ELSE NoVideo

InitSession ==
  /\ selectedImage = null
  /\ loading = FALSE
  /\ isStreaming = FALSE
  /\ plantInfo = null
  /\ error = null
  /\ videoRef = NoVideo
  /\ tracks = <<>>
  /\ cameraCalls = 0
  /\ userMedia = 0
  /\ alerts = 0
  /\ readers = {}
  /\ fetches = {}
  /\ timers = <<>>
  /\ nextId = 1
  /\ done = <<>>
  /\ loaded = {}
  /\ lastOp = "init"

Init ==
  /\ InitSession
  /\ probeName = <<>>
  /\ probeType = "none"

(***************************************************************************)
(* identifyPlant, lines 160-186, up to the await: setLoading(true),        *)
(* setError(null), the plant type from the file name, and the 1.5 s timer. *)
(* plantInfo is not touched here.  All timers have the same delay, so      *)
(* they fire in the order in which they were set: timers is a queue.       *)
(* The fields source and overlapped are history: who called, and whether   *)
(* another identification was pending at some time while this one was.     *)
(***************************************************************************)
MarkOverlapped(q) == [i \in DOMAIN q |-> [q[i] EXCEPT !.overlapped = TRUE]]

TimersAfterStart(q, id, source, name) ==
  Append(MarkOverlapped(q),
         [id |-> id, source |-> source, plantType |-> PlantTypeOf(name),
          overlapped |-> q # <<>>])

identifyPlantStart(id, source, name) ==
  /\ loading' = TRUE
  /\ error' = null
  /\ timers' = TimersAfterStart(timers, id, source, name)
  /\ UNCHANGED plantInfo

(***************************************************************************)
(* identifyPlant, lines 186-199, after the await: the oldest timer fires.  *)
(* Nothing in the try block can throw, so the catch branch never runs.     *)
(***************************************************************************)
\* a resolve that forgets setError in the unknown branch
ErrorAfterResolve_NoError(plantType, err) == err

ErrorAfterResolve(plantType, err) ==
  IF plantType = "unknown" THEN Some(UnableMsg) ELSE err

\* a resolve that looks up the wrong key
PlantInfoAfterResolve_Rose(plantType) ==
  IF plantType = "unknown" THEN null ELSE Some(plantDatabase["rose"])

PlantInfoAfterResolve(plantType) ==
  IF plantType = "unknown" THEN null ELSE Some(plantDatabase[plantType])

\* a resolve whose unknown branch also drops the preview
identifyPlantResume_ClearsPreview ==
  /\ timers # <<>>
  /\ LET t == Head(timers) IN
       /\ error' = ErrorAfterResolve(t.plantType, error)
       /\ plantInfo' = PlantInfoAfterResolve(t.plantType)
       /\ selectedImage' = IF t.plantType = "unknown" THEN null ELSE selectedImage
       /\ done' = Append(done, t)
  /\ loading' = FALSE
  /\ timers' = Tail(timers)
  /\ lastOp' = "identifyPlantResume"
  /\ UNCHANGED <<isStreaming, camera, readers, fetches, nextId, loaded, probe>>

identifyPlantResume ==
  /\ timers # <<>>
  /\ LET t == Head(timers) IN
       /\ error' = ErrorAfterResolve(t.plantType, error)
       /\ plantInfo' = PlantInfoAfterResolve(t.plantType)
       /\ done' = Append(done, t)
  /\ loading' = FALSE
  /\ timers' = Tail(timers)
  /\ lastOp' = "identifyPlantResume"
  /\ UNCHANGED <<selectedImage, isStreaming, camera, readers, fetches, nextId, loaded, probe>>

(***************************************************************************)
(* handleImageUpload, lines 202-212: the file read is started and          *)
(* identifyPlant is called in the same handler.                            *)
(***************************************************************************)
\* an upload that forgets reader.readAsDataURL
ReadersAfterUpload_NoRead(rs, id, file) == rs

ReadersAfterUpload(rs, id, file) == rs \cup {[id |-> id, file |-> file]}

handleImageUpload(file) ==
  /\ nextId <= MaxRequests
  /\ readers' = ReadersAfterUpload(readers, nextId, file)
  /\ identifyPlantStart(nextId, "upload", file.name)
  /\ nextId' = nextId + 1
  /\ lastOp' = "handleImageUpload"
  /\ UNCHANGED <<selectedImage, isStreaming, camera, fetches, history, probe>>

(***************************************************************************)
(* reader.onloadend, lines 206-208.  loadend follows a failed read too,    *)
(* and reader.result is then null.                                         *)
(***************************************************************************)
ReaderResult(file, ok) == IF ok THEN Some(DataURI(file.content)) ELSE null

readerOnLoadEnd(r, ok) ==
  /\ r \in readers
  /\ selectedImage' = ReaderResult(r.file, ok)
  /\ readers' = readers \ {r}
  /\ loaded' = loaded \cup {[id |-> r.id, file |-> r.file, ok |-> ok]}
  /\ lastOp' = "readerOnLoadEnd"
  /\ UNCHANGED <<loading, isStreaming, plantInfo, error, camera, fetches, timers, nextId,
                 done, probe>>

(***************************************************************************)
(* startCamera, lines 114-127.  The call up to the await, then the two     *)
(* ways the getUserMedia promise settles.                                  *)
(***************************************************************************)
startCamera ==
  /\ cameraCalls < MaxCameraCalls
  /\ cameraCalls' = cameraCalls + 1
  /\ userMedia' = userMedia + 1
  /\ lastOp' = "startCamera"
  /\ UNCHANGED <<state, videoRef, tracks, alerts, inflight, history, probe>>

\* lines 119-122: the stream is attached only if videoRef.current is set
RefAfterGrant(ref, stream) ==
  IF ref.current THEN [ref EXCEPT !.srcObject = stream] ELSE ref

StreamingAfterGrant(ref, streaming) ==
  IF ref.current THEN TRUE ELSE streaming

getUserMediaResolved ==
  /\ userMedia > 0
  /\ userMedia' = userMedia - 1
  /\ LET stream == Len(tracks) + 1 IN
       /\ tracks' = Append(tracks, "live")
       /\ isStreaming' = StreamingAfterGrant(videoRef, isStreaming)
       /\ videoRef' = Commit(isStreaming', RefAfterGrant(videoRef, stream))
  /\ lastOp' = "getUserMediaResolved"
  /\ UNCHANGED <<selectedImage, loading, plantInfo, error, cameraCalls, alerts, inflight,
                 history, probe>>

\* a catch block that swallows the failure without the alert
getUserMediaRejected_NoAlert ==
  /\ userMedia > 0
  /\ userMedia' = userMedia - 1
  /\ lastOp' = "getUserMediaRejected"
  /\ UNCHANGED <<state, videoRef, tracks, cameraCalls, alerts, inflight, history, probe>>

\* lines 123-126: console.error and alert
getUserMediaRejected ==
  /\ userMedia > 0
  /\ userMedia' = userMedia - 1
  /\ alerts' = alerts + 1
  /\ lastOp' = "getUserMediaRejected"
  /\ UNCHANGED <<state, videoRef, tracks, cameraCalls, inflight, history, probe>>

(***************************************************************************)
(* stopCamera, lines 129-136, as three functions of the state before.      *)
(***************************************************************************)
HasStream(ref) == ref.current /\ ref.srcObject # 0

\* a stop that ends every granted track without looking at the guard
TracksAfterStop_NoGuard(ref, trk) == [s \in DOMAIN trk |-> "ended"]

TracksAfterStop(ref, trk) ==
  IF HasStream(ref) THEN [trk EXCEPT ![ref.srcObject] = "ended"] ELSE trk

RefAfterStop(ref) ==
  IF HasStream(ref) THEN [ref EXCEPT !.srcObject = 0] ELSE ref

StreamingAfterStop(ref, streaming) ==
  IF HasStream(ref) THEN FALSE ELSE streaming

stopCamera ==
  /\ tracks' = TracksAfterStop(videoRef, tracks)
  /\ isStreaming' = StreamingAfterStop(videoRef, isStreaming)
  /\ videoRef' = Commit(isStreaming', RefAfterStop(videoRef))
  /\ lastOp' = "stopCamera"
  /\ UNCHANGED <<selectedImage, loading, plantInfo, error, cameraCalls, userMedia, alerts,
                 inflight, history, probe>>

(***************************************************************************)
(* captureImage, lines 138-158.  A fresh canvas always yields a 2d         *)
(* context, so the code under if (ctx) runs whenever videoRef.current is   *)
(* set: the preview, stopCamera, and the fetch chain that will call        *)
(* identifyPlant with the file "capture.jpg".                              *)
(***************************************************************************)
captureImage ==
  /\ nextId <= MaxRequests
  /\ IF videoRef.current
       THEN /\ selectedImage' = Some(FrameURI)
            /\ tracks' = TracksAfterStop(videoRef, tracks)
            /\ isStreaming' = StreamingAfterStop(videoRef, isStreaming)
            /\ videoRef' = Commit(isStreaming', RefAfterStop(videoRef))
            /\ fetches' = fetches \cup {[id |-> nextId]}
            /\ nextId' = nextId + 1
       ELSE UNCHANGED <<selectedImage, tracks, isStreaming, videoRef, fetches, nextId>>
  /\ lastOp' = "captureImage"
  /\ UNCHANGED <<loading, plantInfo, error, cameraCalls, userMedia, alerts, readers, timers,
                 history, probe>>

\* lines 150-155: fetch(imageDataUrl).then(blob).then(identifyPlant(file))
fetchThen(f) ==
  /\ f \in fetches
  /\ fetches' = fetches \ {f}
  /\ identifyPlantStart(f.id, "capture", CaptureFileName)
  /\ lastOp' = "fetchThen"
  /\ UNCHANGED <<selectedImage, isStreaming, camera, readers, nextId, history, probe>>

(***************************************************************************)
(* The handlers are the operations of the component.  The page wires       *)
(* startCamera and captureImage to one button (line 233) and stopCamera to *)
(* the Close Camera button (line 256).                                     *)
(*                                                                         *)
(* getUserMediaResolved always finds videoRef.current unset, because the   *)
(* <video> element is rendered only once isStreaming is true: no session   *)
(* ever has a mounted video, captureImage never gets past line 139 and     *)
(* never starts a fetch chain (NeverMounted below).  fetchThen is          *)
(* therefore never enabled in a session and is not a disjunct of Next.     *)
(***************************************************************************)
NeverMounted == ~videoRef.current /\ ~isStreaming /\ fetches = {}

(***************************************************************************)
(* Render, lines 265-273 and 287-345: the still preview is shown when an   *)
(* image is selected and the camera is not streaming; the poison warning   *)
(* is shown inside the profile when the profile's isPoisonous is true.     *)
(***************************************************************************)
PreviewShown == selectedImage # null /\ ~isStreaming

PoisonWarningShown == plantInfo # null /\ plantInfo[1].isPoisonous

Next ==
  \/ \E file \in UploadFiles : handleImageUpload(file)
  \/ \E r \in readers, ok \in BOOLEAN : readerOnLoadEnd(r, ok)
  \/ startCamera
  \/ getUserMediaResolved
  \/ getUserMediaRejected
  \/ stopCamera
  \/ captureImage
  \/ identifyPlantResume

Spec == Init /\ [][Next]_vars

\* the timers and the file reads of the event loop always complete
FairSpec ==
  /\ Spec
  /\ WF_vars(identifyPlantResume)
  /\ WF_vars(\E r \in readers, ok \in BOOLEAN : readerOnLoadEnd(r, ok))

(***************************************************************************)
(* Sessions of uploads only (the camera is left alone), over a file for    *)
(* every plant of the database.                                            *)
(***************************************************************************)
NextCatalog ==
  \/ \E file \in CatalogFiles : handleImageUpload(file)
  \/ \E r \in readers, ok \in BOOLEAN : readerOnLoadEnd(r, ok)
  \/ identifyPlantResume

SpecCatalog == Init /\ [][NextCatalog]_vars

(***************************************************************************)
(* The file-name matcher on its own, over every name of the bound.         *)
(***************************************************************************)
InitIdentify ==
  /\ InitSession
  /\ probeName \in FileNames
  /\ probeType = "none"

identify ==
  /\ probeType = "none"
  /\ probeType' = PlantTypeOf(probeName)
  /\ UNCHANGED <<state, camera, inflight, history, lastOp, probeName>>

NextIdentify == identify

SpecIdentify == InitIdentify /\ [][NextIdentify]_vars

(***************************************************************************)
(* Vocabulary of the properties.                                           *)
(***************************************************************************)
LiveStreams == {s \in DOMAIN tracks : tracks[s] = "live"}

Last(q) == q[Len(q)]

\* what one identification of a plant type is specified to leave behind
ExpectedResult(plantType) ==
  IF plantType = "unknown" THEN null ELSE Some(plantDatabase[plantType])

ExpectedError(plantType) ==
  IF plantType = "unknown" THEN Some(UnableMsg) ELSE null

(***************************************************************************)
(* C1: result (plantInfo) and error are never both set, in any reachable   *)
(* state, overlapping identifications included.                            *)
(***************************************************************************)
C1_ResultErrorExclusive == ~(plantInfo # null /\ error # null)

(***************************************************************************)
(* C2: at most one of {isLoading, error set, result set} holds in any      *)
(* reachable state.                                                        *)
(***************************************************************************)
C2_AtMostOneShown ==
  /\ ~(loading /\ error # null)
  /\ ~(loading /\ plantInfo # null)
  /\ ~(plantInfo # null /\ error # null)

(***************************************************************************)
(* C3: once two overlapping identifications have both resolved, result and *)
(* error are exactly what the later-resolving one alone would produce.     *)
(***************************************************************************)
C3_LastResolvedWins ==
  (timers = <<>> /\ Len(done) >= 2 /\ Last(done).overlapped)
    => /\ plantInfo = ExpectedResult(Last(done).plantType)
       /\ error = ExpectedError(Last(done).plantType)

(***************************************************************************)
(* C4: isLoading is true exactly in the states in which some started       *)
(* identification has not yet resolved.                                    *)
(***************************************************************************)
C4_LoadingIffPending == loading <=> (timers # <<>>)

(***************************************************************************)
(* C5: from a non-streaming state, a camera request that succeeds attaches *)
(* the granted stream as the live preview and sets isStreaming.            *)
(***************************************************************************)
C5_GrantStartsStreaming ==
  [][(~isStreaming /\ Len(tracks') = Len(tracks) + 1)
       => (isStreaming' /\ videoRef'.current /\ videoRef'.srcObject = Len(tracks'))]_vars

(***************************************************************************)
(* C6: isStreaming is true exactly when a granted stream still has live    *)
(* tracks, and every live stream is the one the video element holds.       *)
(***************************************************************************)
C6_NoTrackLeak ==
  /\ isStreaming <=> (LiveStreams # {})
  /\ \A s \in LiveStreams : videoRef.current /\ videoRef.srcObject = s

(***************************************************************************)
(* C7: every started identification eventually resolves, and one that      *)
(* overlapped no other resolves to isLoading false and either the catalog  *)
(* profile of its key with no error, or the "Unable to identify" message   *)
(* with no result.                                                         *)
(***************************************************************************)
Pending(id) == \E i \in DOMAIN timers : timers[i].id = id

Resolved(id) == \E i \in DOMAIN done : done[i].id = id

C7_IdentifyEnds ==
  /\ [][(done' # done /\ ~Last(done').overlapped)
          => /\ ~loading'
             /\ plantInfo' = ExpectedResult(Last(done').plantType)
             /\ error' = ExpectedError(Last(done').plantType)]_vars
  /\ \A id \in 1..MaxRequests : Pending(id) ~> Resolved(id)

\* an identification started from Resolved has ended alone in Failed
C7_Witness ==
  /\ Len(done) = 2
  /\ lastOp = "identifyPlantResume"
  /\ ~done[1].overlapped /\ done[1].plantType = "rose"
  /\ ~done[2].overlapped /\ done[2].plantType = "unknown"
  /\ error = Some(UnableMsg) /\ plantInfo = null /\ ~loading

(***************************************************************************)
(* C8: identify is first-match-wins over the ordered rules, on the         *)
(* keywords the name contains in any letter case, and returns unknown      *)
(* exactly when the name contains none.                                    *)
(***************************************************************************)
Rules ==
  << [any |-> {"mustard"},       key |-> "mustard"],
     [any |-> {"peace", "lily"}, key |-> "peaceLily"],
     [any |-> {"rose"},          key |-> "rose"],
     [any |-> {"tulip"},         key |-> "tulip"],
     [any |-> {"fern"},          key |-> "fern"],
     [any |-> {"cactus"},        key |-> "cactus"] >>

KeywordsIn(name) == {name[i][1] : i \in DOMAIN name} \cap Keywords

FirstMatch(kws) ==
  LET hits == {i \in DOMAIN Rules : Rules[i].any \cap kws # {}} IN
    IF hits = {} THEN "unknown"
    ELSE Rules[CHOOSE i \in hits : \A j \in hits : i <= j].key

C8_FirstMatchWins ==
  probeType # "none" =>
    /\ probeType = FirstMatch(KeywordsIn(probeName))
    /\ (probeType = "unknown") <=> (KeywordsIn(probeName) = {})

\* "ROSE LILY": two keywords in upper case, the earlier rule wins
C8_Witness ==
  /\ probeName = << <<"rose", "upper">>, <<"lily", "upper">> >>
  /\ probeType = "peaceLily"

(***************************************************************************)
(* C9, as stated: whenever the identification of an uploaded file is       *)
(* pending or resolved, the preview has already been set from that file.   *)
(***************************************************************************)
ReadEnded(id) == \E l \in loaded : l.id = id

ReadPending(id) == \E r \in readers : r.id = id

UploadsIdentifying ==
  {timers[i].id : i \in {j \in DOMAIN timers : timers[j].source = "upload"}}
    \cup {done[i].id : i \in {j \in DOMAIN done : done[j].source = "upload"}}

C9_PreviewBeforeIdentifying == \A id \in UploadsIdentifying : ReadEnded(id)

(***************************************************************************)
(* C9, amended: the file read for the preview is started in the step that  *)
(* enters Identifying, and the preview is set from the file only when the  *)
(* read ends (to the file's data URI, or to null when the read failed),    *)
(* which can be while the identification is pending or after it resolved.  *)
(***************************************************************************)
C9_ReadStartedWithIdentifying ==
  /\ \A id \in UploadsIdentifying : ReadPending(id) \/ ReadEnded(id)
  /\ \A r \in readers : r.id \in UploadsIdentifying
  /\ (lastOp = "handleImageUpload") => ReadPending(nextId - 1) /\ Pending(nextId - 1)
  /\ (lastOp = "readerOnLoadEnd") =>
       \E l \in loaded :
         selectedImage = IF l.ok THEN Some(<<"data:", l.file.content>>) ELSE null

\* an upload's identification has resolved and its preview is still not set
C9_Witness ==
  /\ selectedImage = null
  /\ \E id \in 1..MaxRequests : Resolved(id) /\ ReadPending(id) /\ ~ReadEnded(id)

(***************************************************************************)
(* C10: once the camera request has succeeded and its stream is open,      *)
(* capture sets the preview to the captured frame, releases all tracks,    *)
(* clears isStreaming and queues the identification of "capture.jpg".      *)
(***************************************************************************)
C10_CaptureStopsAndIdentifies ==
  [][(LiveStreams # {} /\ nextId <= MaxRequests
        /\ lastOp # "captureImage" /\ lastOp' = "captureImage")
       => /\ selectedImage' = Some(FrameURI)
          /\ LiveStreams' = {}
          /\ ~isStreaming'
          /\ fetches' # {}]_vars

(***************************************************************************)
(* C11: when the camera request fails, from any state, isStreaming stays   *)
(* false, no stream is attached, selectedImage, isLoading, result and      *)
(* error are unchanged, and exactly one device-access notice is recorded.  *)
(***************************************************************************)
C11_DeniedLeavesState ==
  [][(userMedia' = userMedia - 1 /\ Len(tracks') = Len(tracks))
       => /\ alerts' = alerts + 1
          /\ ~isStreaming /\ ~isStreaming'
          /\ videoRef' = videoRef /\ videoRef'.srcObject = 0
          /\ tracks' = tracks
          /\ selectedImage' = selectedImage
          /\ loading' = loading
          /\ plantInfo' = plantInfo
          /\ error' = error]_vars

\* the request was denied while a profile was displayed: one notice, profile kept
C11_Witness ==
  /\ lastOp = "getUserMediaRejected"
  /\ alerts = 1 /\ cameraCalls = 1 /\ userMedia = 0
  /\ plantInfo # null /\ ~isStreaming

(***************************************************************************)
(* C12: stopCamera is idempotent: right after a call, a second call would  *)
(* change nothing; and a call with no stream attached changes nothing.     *)
(***************************************************************************)
C12_StopIdempotent ==
  /\ [](lastOp = "stopCamera" =>
          /\ TracksAfterStop(videoRef, tracks) = tracks
          /\ StreamingAfterStop(videoRef, isStreaming) = isStreaming
          /\ Commit(StreamingAfterStop(videoRef, isStreaming), RefAfterStop(videoRef))
               = videoRef)
  /\ [][(lastOp' = "stopCamera" /\ (~videoRef.current \/ videoRef.srcObject = 0))
          => UNCHANGED <<state, camera, inflight, history>>]_vars

\* stopCamera was called with no stream attached while an identification was pending
C12_Witness ==
  /\ lastOp = "stopCamera"
  /\ videoRef.srcObject = 0
  /\ timers # <<>> /\ loading

(***************************************************************************)
(* C13: the step in which an identification resolves to unknown leaves     *)
(* selectedImage and isStreaming (and the camera and every outstanding     *)
(* callback) unchanged; it sets error, clears the result and clears        *)
(* isLoading.                                                              *)
(***************************************************************************)
C13_FailedKeepsPreview ==
  [][(done' # done /\ Last(done').plantType = "unknown")
       => /\ selectedImage' = selectedImage
          /\ isStreaming' = isStreaming
          /\ UNCHANGED <<camera, readers, fetches, nextId>>
          /\ error' = Some(UnableMsg)
          /\ plantInfo' = null
          /\ ~loading']_vars

\* Failed was entered with the preview of the upload still displayed
C13_Witness ==
  /\ lastOp = "identifyPlantResume"
  /\ Last(done).plantType = "unknown"
  /\ selectedImage = Some(DataURI("otherBytes"))
  /\ error = Some(UnableMsg)

(***************************************************************************)
(* C14: with the camera open (a granted stream has live tracks), close     *)
(* camera releases the stream and clears isStreaming, and leaves           *)
(* selectedImage, isLoading, result and error as they were.                *)
(***************************************************************************)
C14_CloseReleasesStream ==
  [][(LiveStreams # {} /\ lastOp # "stopCamera" /\ lastOp' = "stopCamera")
       => /\ LiveStreams' = {}
          /\ ~isStreaming'
          /\ selectedImage' = selectedImage
          /\ loading' = loading
          /\ plantInfo' = plantInfo
          /\ error' = error]_vars

(***************************************************************************)
(* C15: a resolution to a known key places the catalog entry of that key   *)
(* in result, and the poison warning is shown exactly when a result is     *)
(* displayed and the plant it was resolved to is peaceLily or tulip.       *)
(***************************************************************************)
KnownKeys == {"mustard", "peaceLily", "rose", "tulip", "fern", "cactus"}

PoisonousKeys == {"peaceLily", "tulip"}

Quiescent == readers = {} /\ fetches = {} /\ timers = <<>> /\ done # <<>>

C16_PreviewMatchesOutcome ==
  (Quiescent /\ \A l \in loaded : l.ok)
    => \E l \in loaded :
         /\ l.id = Last(done).id
         /\ selectedImage = Some(<<"data:", l.file.content>>)

(***************************************************************************)
(* C17: when Scan Plant is pressed twice, the streams granted to the two   *)
(* requests are never both open, and after a stopCamera no stream is open. *)
(***************************************************************************)
C17_OneStreamOpen ==
  cameraCalls >= 2 =>
    /\ Cardinality(LiveStreams) <= 1
    /\ (lastOp = "stopCamera") => (LiveStreams = {})

(***************************************************************************)
(* C18: while the camera is open (a granted stream has live tracks), an    *)
(* upload, its file read and its identification leave isStreaming and the  *)
(* stream unchanged, and the preview set when the read ends is not shown.  *)
(***************************************************************************)
C18_UploadWhileStreaming ==
  /\ [][(LiveStreams # {} /\ (readers' # readers \/ timers' # timers))
          => UNCHANGED <<isStreaming, videoRef, tracks>>]_vars
  /\ [][(LiveStreams # {} /\ readers' # readers /\ readers' \subseteq readers)
          => ~PreviewShown']_vars
====
